---- MODULE Spec2Model ----
(***************************************************************************)
(* Model of main.py: the media conversion pipeline                         *)
(*   scan -> probe -> convert_videos -> convert_images -> convert_names    *)
(*        -> organize_files -> rename_files -> clear_empty_folders.        *)
(*                                                                         *)
(* A file name is a sequence of tokens (<<"x", ".", "mp4">> is x.mp4), a   *)
(* path is a sequence of names starting with the root's name, and a tree   *)
(* is a set of entries [path, kind, id]; the id follows a file or folder   *)
(* through renames and moves, so that an overwritten file is a lost id.    *)
(***************************************************************************)
EXTENDS Integers, Sequences, FiniteSets, TLC

VARIABLES
    posix,          \* TRUE: POSIX rename/glob semantics, FALSE: Windows
    inputs,         \* the files under INPUT_DIR: [dir, name, id]
    fs,             \* the tree under OUTPUT_DIR
    pc,             \* where main is
    err,            \* the stage an uncaught exception left, "" when none
    videos,         \* convert_videos: scanned videos still to handle
    images,         \* convert_images: scanned images still to handle
    probe_out,      \* get_best_available_encoder: what the probe gave
    encoder,        \* convert_videos: the encoder chosen for the run
    probes,         \* number of calls of get_best_available_encoder
    used,           \* convert_videos: the vcodec of each transcoder call
    attempted,      \* ids of the scanned files whose loop body was entered
    failed,         \* ids whose conversion raised and was logged
    stack,          \* convert_names: the recursion of convert_path
    idx,            \* organize_files: the counter of Phase A
    todo,           \* organize_files: files of the Phase A walk not yet visited
    current_level,  \* organize_files: the level Phase B is to process
    folders,        \* rename_files: the deque of folders
    fs0,            \* history: the output tree when the run started
    fsA,            \* history: the output tree when organize_files started
    fsB,            \* history: the output tree when Phase B started
    log             \* history: what rename_files found in each folder

convVars == <<inputs, videos, images, probe_out, encoder, probes, used,
              attempted, failed>>
orgVars == <<idx, todo, current_level>>
histVars == <<fs0, fsA, fsB, log>>

vars == <<posix, fs, pc, err, convVars, stack, orgVars, folders, histVars>>

----------------------------------------------------------------------------
(* Bounds of the model *)

MaxFiles == 3        \* files in an initial output tree
MaxInputs == 2       \* files in the input tree
PadMax == 12         \* file counts the index padding is checked for

----------------------------------------------------------------------------
(* Names and paths *)

Front(s) == SubSeq(s, 1, Len(s) - 1)
Last(s) == s[Len(s)]

OUTPUT_DIR == <<"_converted">>
Root == <<OUTPUT_DIR>>
VName == <<"V">>
PName == <<"P">>

Name(p) == Last(p)
Parent(p) == Front(p)

\* str.lower() on the tokens that have an upper-case form
LowerTok(t) ==
    CASE t = "MP4" -> "mp4"
      [] t = "JPG" -> "jpg"
      [] t = "MOV" -> "mov"
      [] t = "V" -> "v"
      [] t = "P" -> "p"
      [] OTHER -> t
Lower(s) == [i \in 1..Len(s) |-> LowerTok(s[i])]

\* PurePath.suffix: from the last dot on, unless the dot is first or last
LastDot(n) ==
    LET dots == {i \in 1..Len(n) : n[i] = "."}
    IN IF dots = {} THEN 0 ELSE CHOOSE i \in dots : \A j \in dots : j <= i
Suffix(n) ==
    LET i == LastDot(n)
    IN IF i > 1 /\ i < Len(n) THEN SubSeq(n, i, Len(n)) ELSE <<>>
Stem(n) == SubSeq(n, 1, Len(n) - Len(Suffix(n)))

MediaSuffixes == {<<".", "mp4">>, <<".", "jpg">>}

\* a file without extension taken for a media file
IsMedia_OrNoSuffix(n) == Suffix(n) = <<>> \/ Lower(Suffix(n)) \in MediaSuffixes

\* file.suffix.lower() in ['.mp4', '.jpg']
IsMedia(n) == Lower(Suffix(n)) \in MediaSuffixes

\* str(n) in decimal
Digits == <<"0", "1", "2", "3", "4", "5", "6", "7", "8", "9">>
RECURSIVE Str(_)
Str(n) == IF n < 10 THEN <<Digits[n + 1]>>
          ELSE Str(n \div 10) \o <<Digits[(n % 10) + 1]>>

RECURSIVE zfill(_, _)
zfill(s, width) == IF Len(s) >= width THEN s ELSE zfill(<<"0">> \o s, width)

get_padded_number(num, total_files) == zfill(Str(num), Len(Str(total_files)))

\* f"{file.stem}_temp{idx}{file.suffix}"
TempName(n, i) == Stem(n) \o <<"_temp">> \o Str(i) \o Suffix(n)

\* the order of str comparison, token by token
TokOrder == <<"(", ")", ".", "0", "1", "2", "3", "4", "5", "6", "7", "8", "9",
              "JPG", "MOV", "MP4", "P", "V", "_converted", "_temp",
              "a", "b", "c", "jpg", "mov", "mp4", "n", "png", "preview",
              "s", "t", "txt", "x", "y">>
TokRank(t) == CHOOSE i \in 1..Len(TokOrder) : TokOrder[i] = t

RECURSIVE NameLess(_, _)
NameLess(a, b) ==
    IF a = <<>> THEN b # <<>>
    ELSE IF b = <<>> THEN FALSE
    ELSE IF a[1] = b[1] THEN NameLess(Tail(a), Tail(b))
    ELSE TokRank(a[1]) < TokRank(b[1])

\* Path.__lt__: the parts compared as lists of strings
RECURSIVE PathLess(_, _)
PathLess(a, b) ==
    IF a = <<>> THEN b # <<>>
    ELSE IF b = <<>> THEN FALSE
    ELSE IF a[1] = b[1] THEN PathLess(Tail(a), Tail(b))
    ELSE NameLess(a[1], b[1])

IsPrefix(p, q) == Len(p) <= Len(q) /\ SubSeq(q, 1, Len(p)) = p

----------------------------------------------------------------------------
(* The file system *)

Exists(f, p) == \E e \in f : e.path = p
IsFile(f, p) == \E e \in f : e.path = p /\ e.kind = "file"
IsDir(f, p) == \E e \in f : e.path = p /\ e.kind = "dir"
Children(f, p) == {e \in f : Len(e.path) = Len(p) + 1 /\ Front(e.path) = p}
FilesIn(f, p) == {e \in Children(f, p) : e.kind = "file"}
DirsIn(f, p) == {e \in Children(f, p) : e.kind = "dir"}
Paths(S) == {e.path : e \in S}

Perms(S) ==
    {s \in [1..Cardinality(S) -> S] : \A i, j \in DOMAIN s : i # j => s[i] # s[j]}

RECURSIVE SetToSeq(_)
SetToSeq(S) == IF S = {} THEN <<>>
               ELSE LET x == CHOOSE y \in S : TRUE IN <<x>> \o SetToSeq(S \ {x})

\* Path.rename (os.rename): does it raise?
RenameRaises(f, src, dst, px) ==
    \/ ~Exists(f, src)
    \/ /\ src # dst
       /\ Exists(f, dst)
       /\ \/ ~px
          \/ IsFile(f, src) /\ IsDir(f, dst)
          \/ IsDir(f, src) /\ IsFile(f, dst)
          \/ IsDir(f, src) /\ IsDir(f, dst) /\ Children(f, dst) # {}

\* Path.rename (os.rename) when it does not raise: dst is replaced
RenameResult(f, src, dst) ==
    IF src = dst THEN f
    ELSE LET moved == {e \in f : IsPrefix(src, e.path)}
             kept == {e \in f : ~IsPrefix(src, e.path) /\ e.path # dst}
         IN kept \cup
            {[e EXCEPT !.path = dst \o SubSeq(e.path, Len(src) + 1, Len(e.path))] :
                e \in moved}

\* the pass in ascending order, reverse=True forgotten
SweepOrder_Ascending(f) ==
    SortSeq(SetToSeq(Paths(f) \ {Root}), LAMBDA a, b : PathLess(a, b))

\* clear_empty_folders: one pass over sorted(rglob("*"), reverse=True)
SweepOrder(f) ==
    SortSeq(SetToSeq(Paths(f) \ {Root}), LAMBDA a, b : PathLess(b, a))

RECURSIVE ClearFrom(_, _, _)
ClearFrom(f, order, i) ==
    IF i > Len(order) THEN f
    ELSE IF IsDir(f, order[i]) /\ Children(f, order[i]) = {}
         THEN ClearFrom({e \in f : e.path # order[i]}, order, i + 1)
         ELSE ClearFrom(f, order, i + 1)

clear_empty_folders(f) == ClearFrom(f, SweepOrder(f), 1)

----------------------------------------------------------------------------
(* The scanner *)

INPUT_DIR == <<"_original">>

VIDEO_EXTENSIONS ==
    <<"mp4", "avi", "mov", "wmv", "flv", "mpeg", "mpg", "m4v", "webm", "mkv">>
IMAGE_EXTENSIONS ==
    <<"jpg", "jpeg", "png", "gif", "bmp", "tiff", "ico", "webp">>

\* does the name match the pattern *.<extension>?  The match is
\* case-sensitive on POSIX and case-folded on Windows.
Matches(n, extension, px) ==
    /\ Len(n) >= 2
    /\ n[Len(n) - 1] = "."
    /\ IF px THEN n[Len(n)] = extension ELSE LowerTok(n[Len(n)]) = extension

ExtIndex(f, exts, px) ==
    CHOOSE i \in 1..Len(exts) : Matches(f.name, exts[i], px)

\* the lists rglob can give: extension by extension, any order within one
Scanned(files, exts, px) ==
    LET hit == {f \in files : \E i \in 1..Len(exts) : Matches(f.name, exts[i], px)}
    IN {s \in Perms(hit) :
            \A i, j \in DOMAIN s :
                i < j => ExtIndex(s[i], exts, px) <= ExtIndex(s[j], exts, px)}

get_all_videos(files, px) == Scanned(files, VIDEO_EXTENSIONS, px)
get_all_images(files, px) == Scanned(files, IMAGE_EXTENSIONS, px)

\* main up to the call of convert_videos
Scan ==
    /\ pc = "start"
    /\ videos' \in get_all_videos(inputs, posix)
    /\ images' \in get_all_images(inputs, posix)
    /\ pc' = "probe"
    /\ UNCHANGED <<posix, fs, err, inputs, probe_out, encoder, probes, used,
                   attempted, failed, stack, orgVars, folders, histVars>>

----------------------------------------------------------------------------
(* The encoder probe *)

\* what subprocess.run(['ffmpeg', '-encoders']) gives: the identifiers listed
\* on stdout, or raised when the process cannot be launched
ProbeResults ==
    {[raised |-> FALSE, stdout |-> o] :
        o \in SUBSET {"h264_nvenc", "h264_qsv", "h264_amf", "libx264"}}
    \cup {[raised |-> TRUE, stdout |-> {}]}
NoProbe == [raised |-> FALSE, stdout |-> {}]

\* the AMD encoder tested before the Intel one
get_best_available_encoder_AmfFirst(out) ==
    IF out.raised THEN "libx264"
    ELSE IF "h264_nvenc" \in out.stdout THEN "h264_nvenc"
    ELSE IF "h264_amf" \in out.stdout THEN "h264_amf"
    ELSE IF "h264_qsv" \in out.stdout THEN "h264_qsv"
    ELSE "libx264"

get_best_available_encoder(out) ==
    IF out.raised THEN "libx264"
    ELSE IF "h264_nvenc" \in out.stdout THEN "h264_nvenc"
    ELSE IF "h264_qsv" \in out.stdout THEN "h264_qsv"
    ELSE IF "h264_amf" \in out.stdout THEN "h264_amf"
    ELSE "libx264"

\* convert_videos: encoder = get_best_available_encoder()
Probe ==
    /\ pc = "probe"
    /\ probe_out' \in ProbeResults
    /\ encoder' = get_best_available_encoder(probe_out')
    /\ probes' = probes + 1
    /\ pc' = "videos"
    /\ UNCHANGED <<posix, fs, err, inputs, videos, images, used, attempted,
                   failed, stack, orgVars, folders, histVars>>

----------------------------------------------------------------------------
(* The converters *)

\* output_dir / rel_path.parent / f"{name}.mp4"
OutputPath(f, ext) == Root \o f.dir \o <<f.name \o <<".", ext>>>>
OutId(f) == 50 + f.id

\* Path.mkdir(parents=True, exist_ok=True): raises when the path or one of
\* its ancestors is a file
MkdirRaises(f, d) == \E k \in 1..Len(d) : IsFile(f, SubSeq(d, 1, k))
MkdirResult(f, d) ==
    f \cup {[path |-> SubSeq(d, 1, k), kind |-> "dir", id |-> 0] :
                k \in {j \in 1..Len(d) : ~Exists(f, SubSeq(d, 1, j))}}

\* the transcoder or the image codec wrote the output file
Written(f, p, i) ==
    {e \in f : e.path # p} \cup {[path |-> p, kind |-> "file", id |-> i]}

\* convert_videos, one video: the output path is prepared outside the try
ConvertVideo ==
    /\ pc = "videos"
    /\ videos # <<>>
    /\ LET video == Head(videos)
           output_path == OutputPath(video, "mp4")
       IN /\ videos' = Tail(videos)
          /\ attempted' = attempted \cup {video.id}
          /\ IF MkdirRaises(fs, Parent(output_path))
             THEN /\ pc' = "aborted"
                  /\ err' = "convert_videos"
                  /\ UNCHANGED <<fs, used, failed>>
             ELSE /\ used' = used \cup {encoder}
                  /\ UNCHANGED <<pc, err>>
                  /\ \E ran \in BOOLEAN :
                        IF ran /\ ~IsDir(fs, output_path)
                        THEN /\ fs' = Written(MkdirResult(fs, Parent(output_path)),
                                              output_path, OutId(video))
                             /\ UNCHANGED failed
                        ELSE /\ fs' = MkdirResult(fs, Parent(output_path))
                             /\ failed' = failed \cup {video.id}
    /\ UNCHANGED <<posix, inputs, images, probe_out, encoder, probes, stack,
                   orgVars, folders, histVars>>

\* convert_videos returns; its locals are gone
VideosDone ==
    /\ pc = "videos"
    /\ videos = <<>>
    /\ pc' = "images"
    /\ probe_out' = NoProbe
    /\ encoder' = "none"
    /\ used' = {}
    /\ UNCHANGED <<posix, fs, err, inputs, videos, images, probes, attempted,
                   failed, stack, orgVars, folders, histVars>>

\* convert_images, one image: the whole body is inside the try
ConvertImage ==
    /\ pc = "images"
    /\ images # <<>>
    /\ LET image == Head(images)
           output_path == OutputPath(image, "jpg")
       IN /\ images' = Tail(images)
          /\ attempted' = attempted \cup {image.id}
          /\ IF MkdirRaises(fs, Parent(output_path))
             THEN /\ failed' = failed \cup {image.id}
                  /\ UNCHANGED fs
             ELSE \E ran \in BOOLEAN :
                        IF ran /\ ~IsDir(fs, output_path)
                        THEN /\ fs' = Written(MkdirResult(fs, Parent(output_path)),
                                              output_path, OutId(image))
                             /\ UNCHANGED failed
                        ELSE /\ fs' = MkdirResult(fs, Parent(output_path))
                             /\ failed' = failed \cup {image.id}
    /\ UNCHANGED <<posix, pc, err, inputs, videos, probe_out, encoder, probes,
                   used, stack, orgVars, folders, histVars>>

----------------------------------------------------------------------------
(* convert_names *)

\* cc.convert: the simplified character s becomes the traditional t
cc_convert(n) == [i \in 1..Len(n) |-> IF n[i] = "s" THEN "t" ELSE n[i]]

\* a call of convert_path: items = list(path.iterdir()) when path is a folder
Frame(f, p) ==
    [path |-> p, items |-> IF IsDir(f, p) THEN Paths(Children(f, p)) ELSE {}]

\* convert_images returns and main calls convert_names
ImagesDone ==
    /\ pc = "images"
    /\ images = <<>>
    /\ pc' = "names"
    /\ stack' = <<Frame(fs, Root)>>
    /\ UNCHANGED <<posix, fs, err, convVars, orgVars, folders, histVars>>

\* convert_path: the next item of the loop, convert_path(item)
NamesDescend ==
    /\ pc = "names"
    /\ stack # <<>>
    /\ LET top == stack[Len(stack)]
       IN \E item \in top.items :
            stack' = Front(stack)
                     \o <<[top EXCEPT !.items = top.items \ {item}]>>
                     \o <<Frame(fs, item)>>
    /\ UNCHANGED <<posix, fs, pc, err, convVars, orgVars, folders, histVars>>

\* convert_path: after the loop, rename the path itself and return
NamesRename ==
    /\ pc = "names"
    /\ stack # <<>>
    /\ LET top == stack[Len(stack)]
           new_name == cc_convert(Name(top.path))
           dst == Parent(top.path) \o <<new_name>>
       IN /\ top.items = {}
          /\ IF new_name = Name(top.path)
             THEN /\ stack' = Front(stack)
                  /\ UNCHANGED <<fs, pc, err>>
             ELSE IF RenameRaises(fs, top.path, dst, posix)
             THEN /\ pc' = "aborted"
                  /\ err' = "convert_names"
                  /\ UNCHANGED <<fs, stack>>
             ELSE /\ fs' = RenameResult(fs, top.path, dst)
                  /\ stack' = Front(stack)
                  /\ UNCHANGED <<pc, err>>
    /\ UNCHANGED <<posix, convVars, orgVars, folders, histVars>>

\* convert_names returns and main calls organize_files
NamesReturn ==
    /\ pc = "names"
    /\ stack = <<>>
    /\ pc' = "start_organize"
    /\ UNCHANGED <<posix, fs, err, convVars, stack, orgVars, folders, histVars>>

----------------------------------------------------------------------------
(* organize_files *)

\* Phase A, one file of the walk: unlink it or give it its temporary name
PhaseAStep ==
    /\ pc = "phaseA"
    /\ \E p \in todo :
        /\ todo' = todo \ {p}
        /\ IF ~IsMedia(Name(p))
           THEN /\ fs' = {e \in fs : e.path # p}
                /\ UNCHANGED <<idx, pc, err>>
           ELSE LET dst == Parent(p) \o <<TempName(Name(p), idx)>>
                IN IF RenameRaises(fs, p, dst, posix)
                   THEN /\ pc' = "aborted"
                        /\ err' = "organize_files"
                        /\ UNCHANGED <<fs, idx>>
                   ELSE /\ fs' = RenameResult(fs, p, dst)
                        /\ idx' = idx + 1
                        /\ UNCHANGED <<pc, err>>
    /\ UNCHANGED <<posix, convVars, stack, current_level, folders, histVars>>

\* Phase A ends: clear_empty_folders, then current_level = [output_dir]
PhaseAEnd ==
    /\ pc = "phaseA"
    /\ todo = {}
    /\ fs' = clear_empty_folders(fs)
    /\ fsB' = fs'
    /\ current_level' = {Root}
    /\ pc' = "phaseB"
    /\ UNCHANGED <<posix, err, convVars, stack, idx, todo, folders, fs0, fsA, log>>

\* every file moved into V, whatever its extension
OrganizeDir_AllToV(f, d) ==
    IF Name(d) \in {VName, PName} THEN f
    ELSE IF Exists(f, d \o <<VName>>) \/ Exists(f, d \o <<PName>>) THEN f
    ELSE LET files_to_move == {e \in FilesIn(f, d) : IsMedia(Name(e.path))}
         IN IF files_to_move = {} THEN f
            ELSE (f \ files_to_move)
                 \cup {[path |-> d \o <<VName>>, kind |-> "dir", id |-> 0],
                       [path |-> d \o <<PName>>, kind |-> "dir", id |-> 0]}
                 \cup {[e EXCEPT !.path = d \o <<VName, Name(e.path)>>] :
                            e \in files_to_move}

\* Phase B, one directory of the current level
OrganizeDir(f, d) ==
    IF Name(d) \in {VName, PName} THEN f
    ELSE IF Exists(f, d \o <<VName>>) \/ Exists(f, d \o <<PName>>) THEN f
    ELSE LET files_to_move == {e \in FilesIn(f, d) : IsMedia(Name(e.path))}
             Target(e) == IF Lower(Suffix(Name(e.path))) = <<".", "mp4">>
                          THEN d \o <<VName, Name(e.path)>>
                          ELSE d \o <<PName, Name(e.path)>>
         IN IF files_to_move = {} THEN f
            ELSE (f \ files_to_move)
                 \cup {[path |-> d \o <<VName>>, kind |-> "dir", id |-> 0],
                       [path |-> d \o <<PName>>, kind |-> "dir", id |-> 0]}
                 \cup {[e EXCEPT !.path = Target(e)] : e \in files_to_move}

RECURSIVE OrganizeLevel(_, _)
OrganizeLevel(f, level) ==
    IF level = {} THEN f
    ELSE LET d == CHOOSE x \in level : TRUE
         IN OrganizeLevel(OrganizeDir(f, d), level \ {d})

\* the subdirectories Phase B adds to next_level
NextLevel(f, level) ==
    {e.path : e \in {x \in f : /\ x.kind = "dir"
                               /\ Parent(x.path) \in level
                               /\ Name(Parent(x.path)) \notin {VName, PName}
                               /\ Name(x.path) \notin {VName, PName}}}

\* Phase B, one level of the while loop
PhaseBLevel ==
    /\ pc = "phaseB"
    /\ current_level # {}
    /\ fs' = OrganizeLevel(fs, current_level)
    /\ current_level' = NextLevel(fs', current_level)
    /\ UNCHANGED <<posix, pc, err, convVars, stack, idx, todo, folders, histVars>>

\* organize_files returns and rename_files starts: folders = deque([output_dir])
OrganizeReturn ==
    /\ pc = "phaseB"
    /\ current_level = {}
    /\ pc' = "rename"
    /\ folders' = <<Root>>
    /\ UNCHANGED <<posix, fs, err, convVars, stack, orgVars, histVars>>

----------------------------------------------------------------------------
(* rename_files *)

\* the index counted from 0, enumerate(..., 1) forgotten
NewName_FromZero(folder, n, i, total) ==
    IF Name(folder) = PName
    THEN <<"P", "(">> \o get_padded_number(i - 1, total) \o <<")", ".", "jpg">>
    ELSE IF Name(folder) = VName
    THEN <<"V", "(">> \o get_padded_number(i - 1, total) \o <<")", ".", "mp4">>
    ELSE <<"preview", "(">> \o get_padded_number(i - 1, total) \o <<")">>
         \o Lower(Suffix(n))

\* the new name of the i-th file of the listing
NewName(folder, n, i, total) ==
    IF Name(folder) = PName
    THEN <<"P", "(">> \o get_padded_number(i, total) \o <<")", ".", "jpg">>
    ELSE IF Name(folder) = VName
    THEN <<"V", "(">> \o get_padded_number(i, total) \o <<")", ".", "mp4">>
    ELSE <<"preview", "(">> \o get_padded_number(i, total) \o <<")">>
         \o Lower(Suffix(n))

\* the renames of one folder, in the order of its listing
RECURSIVE RenameAll(_, _, _, _, _)
RenameAll(f, folder, order, i, px) ==
    IF i > Len(order) THEN [fs |-> f, ok |-> TRUE]
    ELSE LET src == order[i]
             dst == folder \o <<NewName(folder, Name(src), i, Len(order))>>
         IN IF RenameRaises(f, src, dst, px)
            THEN [fs |-> f, ok |-> FALSE]
            ELSE RenameAll(RenameResult(f, src, dst), folder, order, i + 1, px)

\* one folder of the deque
RenameStep ==
    /\ pc = "rename"
    /\ folders # <<>>
    /\ LET folder == Head(folders)
       IN \E order \in Perms(Paths(FilesIn(fs, folder))) :
            LET r == RenameAll(fs, folder, order, 1, posix)
            IN /\ fs' = r.fs
               /\ log' = log \cup
                    {[folder |-> folder,
                      order |-> [i \in DOMAIN order |->
                          [name |-> Name(order[i]),
                           id |-> (CHOOSE e \in fs : e.path = order[i]).id]],
                      others |-> {Name(e.path) : e \in DirsIn(fs, folder)},
                      ok |-> r.ok]}
               /\ IF r.ok
                  THEN /\ \E sub \in Perms(Paths(DirsIn(r.fs, folder))) :
                            folders' = Tail(folders) \o sub
                       /\ UNCHANGED <<pc, err>>
                  ELSE /\ pc' = "aborted"
                       /\ err' = "rename_files"
                       /\ UNCHANGED folders
    /\ UNCHANGED <<posix, convVars, stack, orgVars, fs0, fsA, fsB>>

\* rename_files returns; main calls clear_empty_folders and ends
RenameReturn ==
    /\ pc = "rename"
    /\ folders = <<>>
    /\ fs' = clear_empty_folders(fs)
    /\ pc' = "done"
    /\ UNCHANGED <<posix, err, convVars, stack, orgVars, folders, histVars>>

----------------------------------------------------------------------------
(* Output trees a run can find *)

DirPool == {Root, Root \o <<<<"a">>>>, Root \o <<<<"a">>, VName>>,
            Root \o <<<<"a">>, VName, <<"b">>>>, Root \o <<<<"c">>>>}

FilePool ==
    << [dir |-> Root \o <<<<"a">>>>, name |-> <<"x", ".", "mp4">>],
       [dir |-> Root \o <<<<"a">>>>, name |-> <<"x", "_temp", "0", ".", "mp4">>],
       [dir |-> Root \o <<<<"a">>>>, name |-> <<"y", ".", "jpg">>],
       [dir |-> Root \o <<<<"a">>>>, name |-> <<"n", ".", "txt">>],
       [dir |-> Root \o <<<<"a">>, VName>>, name |-> <<"V", "(", "1", ")", ".", "mp4">>],
       [dir |-> Root \o <<<<"a">>, VName>>, name |-> <<"V", "(", "2", ")", ".", "mp4">>],
       [dir |-> Root \o <<<<"a">>, VName, <<"b">>>>, name |-> <<"x", ".", "mp4">>],
       [dir |-> Root, name |-> <<"y", ".", "JPG">>],
       [dir |-> Root \o <<<<"c">>>>, name |-> <<"n">>],
       [dir |-> Root, name |-> <<"x", ".", "mp4">>] >>

DirId(d) == 100 + Len(d) * 10 + TokRank(Name(d)[1])

MkTree(S, D) ==
    {[path |-> d, kind |-> "dir", id |-> DirId(d)] : d \in D}
    \cup {[path |-> FilePool[i].dir \o <<FilePool[i].name>>, kind |-> "file", id |-> i] :
            i \in S}

Trees ==
    {MkTree(S, D) :
        <<S, D>> \in {sd \in (SUBSET (1..Len(FilePool))) \X (SUBSET DirPool) :
            /\ Cardinality(sd[1]) <= MaxFiles
            /\ Root \in sd[2]
            /\ \A d \in sd[2] : d # Root => Parent(d) \in sd[2]
            /\ \A i \in sd[1] : FilePool[i].dir \in sd[2]}}

Idle ==
    /\ err = ""
    /\ videos = <<>>
    /\ images = <<>>
    /\ probe_out = [raised |-> FALSE, stdout |-> {}]
    /\ encoder = "none"
    /\ probes = 0
    /\ used = {}
    /\ attempted = {}
    /\ failed = {}
    /\ stack = <<>>
    /\ idx = 0
    /\ todo = {}
    /\ current_level = {}
    /\ log = {}

\* organize_files is entered on any tree
InitOrg ==
    /\ posix \in BOOLEAN
    /\ fs \in Trees
    /\ fs0 = fs
    /\ fsA = fs
    /\ fsB = {}
    /\ Idle
    /\ inputs = {}
    /\ folders = <<>>
    /\ pc = "start_organize"

\* idx = 0 and the walk output_dir.rglob("*") starts
OrganizeStart ==
    /\ pc = "start_organize"
    /\ idx' = 0
    /\ todo' = {e.path : e \in {x \in fs : x.kind = "file"}}
    /\ fsA' = fs
    /\ pc' = "phaseA"
    /\ UNCHANGED <<posix, fs, err, convVars, stack, current_level, folders,
                   fs0, fsB, log>>

NextOrg ==
    \/ OrganizeStart
    \/ PhaseAStep
    \/ PhaseAEnd
    \/ PhaseBLevel
    \/ OrganizeReturn
    \/ RenameStep
    \/ RenameReturn

OrgSpec == InitOrg /\ [][NextOrg]_vars

----------------------------------------------------------------------------
(* A run of main *)

InputPool ==
    << [dir |-> <<>>, name |-> <<"x", ".", "mp4">>],
       [dir |-> <<<<"a">>>>, name |-> <<"x", ".", "MOV">>],
       [dir |-> <<<<"a">>>>, name |-> <<"y", ".", "png">>],
       [dir |-> <<<<"a">>>>, name |-> <<"x", ".", "mov">>],
       [dir |-> <<>>, name |-> <<"n", ".", "txt">>],
       [dir |-> <<<<"a">>>>, name |-> <<"s", ".", "jpg">>] >>

InputTrees ==
    {{[dir |-> InputPool[i].dir, name |-> InputPool[i].name, id |-> i] : i \in S} :
        S \in {T \in SUBSET (1..Len(InputPool)) : Cardinality(T) <= MaxInputs}}

\* what OUTPUT_DIR holds before the run: nothing, the result of an earlier
\* run, or a file where the run needs a folder
OutputTrees ==
    { MkTree({}, {Root}),
      MkTree({5, 6}, {Root, Root \o <<<<"a">>>>, Root \o <<<<"a">>, VName>>}),
      MkTree({}, {Root}) \cup
        {[path |-> Root \o <<<<"a">>>>, kind |-> "file", id |-> 11]} }

Init ==
    /\ posix \in BOOLEAN
    /\ fs \in OutputTrees
    /\ fs0 = fs
    /\ fsA = {}
    /\ fsB = {}
    /\ Idle
    /\ inputs \in InputTrees
    /\ folders = <<>>
    /\ pc = "start"

NextConv == Scan \/ Probe \/ ConvertVideo \/ VideosDone \/ ConvertImage \/ ImagesDone

NextNames == NamesDescend \/ NamesRename \/ NamesReturn

Next == NextConv \/ NextNames \/ NextOrg

Spec == Init /\ [][Next]_vars

----------------------------------------------------------------------------
(* convert_names on any tree *)

NameDirPool == {Root, Root \o <<<<"s">>>>, Root \o <<<<"t">>>>, Root \o <<<<"a">>>>}

NameFilePool ==
    << [dir |-> Root \o <<<<"s">>>>, name |-> <<"s", ".", "mp4">>],
       [dir |-> Root \o <<<<"s">>>>, name |-> <<"t", ".", "mp4">>],
       [dir |-> Root \o <<<<"a">>>>, name |-> <<"s", ".", "jpg">>],
       [dir |-> Root \o <<<<"a">>>>, name |-> <<"t", ".", "jpg">>],
       [dir |-> Root \o <<<<"t">>>>, name |-> <<"x", ".", "mp4">>],
       [dir |-> Root, name |-> <<"s", "x", ".", "jpg">>] >>

NameTrees ==
    {{[path |-> d, kind |-> "dir", id |-> DirId(d)] : d \in sd[2]}
     \cup {[path |-> NameFilePool[i].dir \o <<NameFilePool[i].name>>,
            kind |-> "file", id |-> i] : i \in sd[1]} :
        sd \in {x \in (SUBSET (1..Len(NameFilePool))) \X (SUBSET NameDirPool) :
            /\ Cardinality(x[1]) <= MaxFiles
            /\ Root \in x[2]
            /\ \A i \in x[1] : NameFilePool[i].dir \in x[2]}}

InitNames ==
    /\ posix \in BOOLEAN
    /\ fs \in NameTrees
    /\ fs0 = fs
    /\ fsA = {}
    /\ fsB = {}
    /\ inputs = {}
    /\ err = ""
    /\ videos = <<>>
    /\ images = <<>>
    /\ probe_out = [raised |-> FALSE, stdout |-> {}]
    /\ encoder = "none"
    /\ probes = 0
    /\ used = {}
    /\ attempted = {}
    /\ failed = {}
    /\ stack = <<Frame(fs, Root)>>
    /\ idx = 0
    /\ todo = {}
    /\ current_level = {}
    /\ log = {}
    /\ folders = <<>>
    /\ pc = "names"

NameSpec == InitNames /\ [][NextNames]_vars

\* rename_files is entered on any tree: folders = deque([output_dir])
InitRen ==
    /\ posix \in BOOLEAN
    /\ fs \in Trees
    /\ fs0 = fs
    /\ fsA = {}
    /\ fsB = {}
    /\ Idle
    /\ inputs = {}
    /\ folders = <<Root>>
    /\ pc = "rename"

\* rename_files called on its own, or by main after organize_files
RenSpec == (InitOrg \/ InitRen) /\ [][NextOrg]_vars

----------------------------------------------------------------------------
(* Properties *)

PhaseAEnded ==
    \/ pc \in {"phaseB", "rename", "done"}
    \/ pc = "aborted" /\ err = "rename_files"

OrganizeReturned == pc = "phaseB" /\ current_level = {}

Ids(S) == {e.id : e \in S}

\* the lowercased extension of a name, empty when it has none
ExtOf(n) ==
    IF Len(n) >= 3 /\ n[Len(n) - 1] = "." THEN <<".", LowerTok(n[Len(n)])>> ELSE <<>>
MediaFiles(f) ==
    {e \in f : e.kind = "file" /\ ExtOf(Name(e.path)) \in {<<".", "mp4">>, <<".", "jpg">>}}
OtherFiles(f) ==
    {e \in f : e.kind = "file" /\ ExtOf(Name(e.path)) \notin {<<".", "mp4">>, <<".", "jpg">>}}
HadVP(f, d) == Exists(f, d \o <<VName>>) \/ Exists(f, d \o <<PName>>)
UnderVP(p) == \E i \in 1..Len(p) : p[i] \in {VName, PName}
IsMp4(n) == ExtOf(n) = <<".", "mp4">>

\* C7: no file whose lowercased extension is neither .mp4 nor .jpg (or that
\* has no extension), at any depth, is left when Phase A has ended.
C7_NonMediaRemoved ==
    PhaseAEnded =>
        \A e \in OtherFiles(fsA) :
            /\ e.id \notin Ids(fs)
            /\ ~Exists(fs, e.path)

C7_Witness ==
    /\ pc = "phaseB"
    /\ \E e \in OtherFiles(fsA) : ExtOf(Name(e.path)) = <<>> /\ Len(e.path) > 2
    /\ \E e \in OtherFiles(fsA) : ExtOf(Name(e.path)) # <<>>

\* C9 as claimed: in Phase A no rename lands on a name another file holds,
\* so the run is not stopped there and every .mp4/.jpg file is still there
\* when Phase A has ended, each directory holding as many as before.
C9_NoFileOverwritten ==
    /\ err # "organize_files"
    /\ PhaseAEnded => Ids(MediaFiles(fsA)) \subseteq Ids(fs)

\* C1 as claimed: when organize_files returns, every directory that directly
\* held .mp4/.jpg files (and had no V or P child) has V and P holding them,
\* and every .mp4/.jpg file has a parent named V or P unless it lies directly
\* in a directory that had a V or P child before Phase B.
C1_AllMediaInVP ==
    OrganizeReturned =>
        /\ \A d \in Paths(fsB) :
            (/\ IsDir(fsB, d)
             /\ Name(d) \notin {VName, PName}
             /\ ~HadVP(fsB, d)
             /\ MediaFiles(FilesIn(fsB, d)) # {})
            => /\ IsDir(fs, d \o <<VName>>)
               /\ IsDir(fs, d \o <<PName>>)
               /\ \A e \in MediaFiles(FilesIn(fsB, d)) :
                    [e EXCEPT !.path =
                        d \o <<IF IsMp4(Name(e.path)) THEN VName ELSE PName,
                               Name(e.path)>>] \in fs
        /\ \A e \in MediaFiles(fs) :
            \/ Name(Parent(e.path)) \in {VName, PName}
            \/ HadVP(fsB, Parent(e.path))

\* C1 amended: the same for the directories Phase B reaches, those neither
\* named V or P nor lying beneath a directory named V or P; the files beneath
\* a directory named V or P stay where they are.
C1_ReachedMediaInVP ==
    OrganizeReturned =>
        /\ \A d \in Paths(fsB) :
            (/\ IsDir(fsB, d)
             /\ ~UnderVP(d)
             /\ ~HadVP(fsB, d)
             /\ MediaFiles(FilesIn(fsB, d)) # {})
            => /\ IsDir(fs, d \o <<VName>>)
               /\ IsDir(fs, d \o <<PName>>)
               /\ \A e \in MediaFiles(FilesIn(fsB, d)) :
                    [e EXCEPT !.path =
                        d \o <<IF IsMp4(Name(e.path)) THEN VName ELSE PName,
                               Name(e.path)>>] \in fs
        /\ \A e \in MediaFiles(fs) :
            \/ UnderVP(Parent(e.path))
            \/ HadVP(fsB, Parent(e.path))
        /\ \A e \in MediaFiles(fsB) :
            UnderVP(Parent(e.path)) \/ HadVP(fsB, Parent(e.path)) => e \in fs

C1_Witness ==
    /\ OrganizeReturned
    /\ \E d \in Paths(fsB) :
        /\ ~UnderVP(d)
        /\ ~HadVP(fsB, d)
        /\ \E e \in MediaFiles(FilesIn(fsB, d)) : IsMp4(Name(e.path))
        /\ \E e \in MediaFiles(FilesIn(fsB, d)) : ~IsMp4(Name(e.path))
        /\ FilesIn(fs, d \o <<PName>>) # {}
    /\ \E e \in MediaFiles(fs) : UnderVP(Front(Parent(e.path)))

EmptyDirs(f) == {e \in f : e.kind = "dir" /\ Children(f, e.path) = {}}

\* C4 as claimed: when main has finished no directory of the output tree is
\* empty, and neither is one after the pass that ends Phase A.
C4_NoEmptyDir ==
    /\ pc = "done" => EmptyDirs(fs) = {}
    /\ (pc = "phaseB" /\ fs = fsB) => EmptyDirs(fs) = {}

\* C4 amended: no directory other than the output root is empty (the root is
\* not among the directories the pass visits).
C4_NoEmptyDirBelowRoot ==
    /\ pc = "done" => Paths(EmptyDirs(fs)) \subseteq {Root}
    /\ (pc = "phaseB" /\ fs = fsB) => Paths(EmptyDirs(fs)) \subseteq {Root}

C4_Witness ==
    /\ pc = "done"
    /\ IsDir(fsA, Root \o <<<<"a">>, VName, <<"b">>>>)
    /\ ~Exists(fs, Root \o <<<<"a">>>>)
    /\ IsDir(fs, Root \o <<VName>>)
    /\ ~Exists(fs, Root \o <<PName>>)

DigitVal(t) == (CHOOSE i \in 1..10 : Digits[i] = t) - 1
RECURSIVE Val(_)
Val(s) == IF s = <<>> THEN 0 ELSE 10 * Val(Front(s)) + DigitVal(Last(s))
Width(n) == IF n < 10 THEN 1 ELSE IF n < 100 THEN 2 ELSE 3

\* the index i as it is to appear in a folder of n files
ExpectedIndex(i, n) ==
    IF n < 10 THEN <<Digits[i + 1]>>
    ELSE <<Digits[(i \div 10) + 1], Digits[(i % 10) + 1]>>

LogTarget(h, i) ==
    LET n == Len(h.order)
    IN IF Name(h.folder) = VName
       THEN <<"V", "(">> \o ExpectedIndex(i, n) \o <<")", ".", "mp4">>
       ELSE IF Name(h.folder) = PName
       THEN <<"P", "(">> \o ExpectedIndex(i, n) \o <<")", ".", "jpg">>
       ELSE <<"preview", "(">> \o ExpectedIndex(i, n) \o <<")">>
            \o ExtOf(h.order[i].name)

\* the folder of log entry h holds exactly its N files under the N new names
Exact(h) ==
    FilesIn(fs, h.folder) =
        {[path |-> h.folder \o <<LogTarget(h, i)>>, kind |-> "file",
          id |-> h.order[i].id] : i \in DOMAIN h.order}

\* no new name is held by a subfolder or by a file listed later
NoClash(h) ==
    \A i \in DOMAIN h.order :
        /\ LogTarget(h, i) \notin h.others
        /\ \A j \in DOMAIN h.order : j > i => h.order[j].name # LogTarget(h, i)

ConvDone == pc = "images" /\ images = <<>>

Range(q) == {q[i] : i \in DOMAIN q}
HasExt(n, exts) ==
    Len(n) >= 2 /\ n[Len(n) - 1] = "." /\ LowerTok(n[Len(n)]) \in Range(exts)

\* C3 as claimed: after the scan and the two converters, every input file
\* whose extension is, case-insensitively, a video or image extension (and
\* whose conversion did not fail) has its output file at the mirrored path,
\* its name with .mp4 or .jpg appended; distinct inputs, distinct outputs.
C3_EveryRecognizedConverted ==
    ConvDone =>
        /\ \A f \in inputs :
            /\ (HasExt(f.name, VIDEO_EXTENSIONS) /\ f.id \notin failed)
                => [path |-> Root \o f.dir \o <<f.name \o <<".", "mp4">>>>,
                    kind |-> "file", id |-> OutId(f)] \in fs
            /\ (HasExt(f.name, IMAGE_EXTENSIONS) /\ f.id \notin failed)
                => [path |-> Root \o f.dir \o <<f.name \o <<".", "jpg">>>>,
                    kind |-> "file", id |-> OutId(f)] \in fs
        /\ \A e1, e2 \in fs : e1.id = e2.id /\ e1.id > 50 => e1 = e2

\* C6 as claimed: no failure in the handling of one scanned file, in the
\* codec or in preparing the output path, ends the run inside convert_videos
\* or convert_images.
C6_ConversionNeverAborts ==
    /\ err # "convert_videos"
    /\ err # "convert_images"

\* C8: the encoder is h264_nvenc if the probe lists it, else h264_qsv, else
\* h264_amf, else libx264, and libx264 when the probe raised; the probe is made
\* once and every transcoder call of the run gets that encoder.
C8_EncoderPriority ==
    /\ probes <= 1
    /\ pc \in {"start", "probe"} <=> probes = 0
    /\ pc = "videos" =>
        /\ used \subseteq {encoder}
        /\ probe_out.raised => encoder = "libx264"
        /\ "h264_nvenc" \in probe_out.stdout => encoder = "h264_nvenc"
        /\ ("h264_nvenc" \notin probe_out.stdout /\ "h264_qsv" \in probe_out.stdout)
            => encoder = "h264_qsv"
        /\ ({"h264_nvenc", "h264_qsv"} \cap probe_out.stdout = {}
            /\ "h264_amf" \in probe_out.stdout) => encoder = "h264_amf"
        /\ {"h264_nvenc", "h264_qsv", "h264_amf"} \cap probe_out.stdout = {}
            => encoder = "libx264"

C8_Witness ==
    /\ pc = "videos"
    /\ videos = <<>>
    /\ Cardinality(attempted) = 2
    /\ probe_out.stdout = {"h264_qsv", "h264_amf", "libx264"}
    /\ used = {"h264_qsv"}

\* the files of folder d are named V(1..N).mp4 or P(1..N).jpg
NumberedFolder(f, d) ==
    LET n == Cardinality(FilesIn(f, d))
    IN {Name(e.path) : e \in FilesIn(f, d)} =
        {IF Name(d) = VName
         THEN <<"V", "(">> \o ExpectedIndex(i, n) \o <<")", ".", "mp4">>
         ELSE <<"P", "(">> \o ExpectedIndex(i, n) \o <<")", ".", "jpg">> : i \in 1..n}

\* the tree is what an earlier run left
Organized(f) ==
    /\ \E e \in f : e.kind = "file"
    /\ \A e \in f : e.kind = "file" =>
        /\ Name(Parent(e.path)) \in {VName, PName}
        /\ NumberedFolder(f, Parent(e.path))
    /\ Paths(EmptyDirs(f)) \subseteq {Root}

\* C5 as claimed: a run on an output tree that an earlier run organized
\* leaves every file of a V or P folder at its path, under its name.
C5_SecondRunKeepsVP ==
    (pc = "done" /\ Organized(fs0)) =>
        \A e \in fs0 :
            (e.kind = "file" /\ Name(Parent(e.path)) \in {VName, PName}) => e \in fs

ConvertedPath(p) == [i \in 1..Len(p) |-> cc_convert(p[i])]

\* C10 as claimed: when convert_names returns, every file and folder is
\* there under its transliterated path; two siblings with one transliterated
\* name stop the run instead of one replacing the other.
C10_EveryEntryKept ==
    (pc = "start_organize" /\ fsA = {}) =>
        \A e \in fs0 : [e EXCEPT !.path = ConvertedPath(e.path)] \in fs

====
